---- MODULE Spec2Model ----
(***************************************************************************)
(* Model of hvec_tide: analysers.py (select_constituents, run_utide_solve, *)
(* tide_and_setup, _timeseries_segment, _constit_segment,                  *)
(* analyse_long_series) and parsers.py (_parse_characteristic_levels,      *)
(* parse_utide).                                                           *)
(*                                                                         *)
(* The package is a stateless library.  Every behaviour is one call: Init  *)
(* draws the function called, its arguments and the behaviour of the       *)
(* external collaborators (UTide's solve, the data) from bounded sets, and *)
(* the action of that function computes what the call returns or raises    *)
(* and the external calls it made on the way.                              *)
(*                                                                         *)
(* Python values are tagged records: [type |-> "str", s |-> ...] is a      *)
(* string, [type |-> "Bunch", ...] a UTide result, [type |-> "None"] is    *)
(* None, [type |-> "DataFrame", ...] a table.  Levels, amplitudes and PE   *)
(* are integers (hundredths of the unit of the Python floats).             *)
(***************************************************************************)
EXTENDS Integers, Sequences, FiniteSets, TLC

VARIABLES
    pc,      \* "call": the call is about to be made; "done": it has returned or raised
    fn,      \* name of the function called
    args,    \* its arguments, and the external world it runs against
    ret,     \* [raised, value]: what the call returned or raised
    calls    \* the external calls made (ut.solve, ut.reconstruct, gof.Rsq_adj), in order

vars == <<pc, fn, args, ret, calls>>

----------------------------------------------------------------------------
(* Bounds of the model *)

MaxConstit == 4     \* longest constituent list a fit returns
MaxRows == 3        \* longest observation table

----------------------------------------------------------------------------
(* Python values and outcomes *)

None == [type |-> "None"]
Str(s) == [type |-> "str", s |-> s]

Return(v, cs) == [raised |-> FALSE, value |-> v, calls |-> cs]
Raise(e, cs) == [raised |-> TRUE, value |-> [type |-> "exc", s |-> e], calls |-> cs]

\* isinstance(sol, str)
IsStr(v) == v.type = "str"

\* sol == 'literal' for a value that is a string or a Bunch (a dict never equals a str)
EqStr(v, lit) == v.type = "str" /\ v.s = lit

----------------------------------------------------------------------------
(* numpy / pandas helpers *)

RECURSIVE SumSeq(_)
SumSeq(s) == IF s = <<>> THEN 0 ELSE s[1] + SumSeq(Tail(s))

\* Series.cumsum()
CumSum(s) == [i \in 1..Len(s) |-> SumSeq(SubSeq(s, 1, i))]

\* ndarray.argmax() of a boolean array, as a 0-based index: the first True,
\* and 0 when every entry is False (the first occurrence of the maximum).
ArgMax(b) ==
    IF \E i \in 1..Len(b) : b[i]
    THEN (CHOOSE i \in 1..Len(b) : b[i] /\ \A j \in 1..(i - 1) : ~b[j]) - 1
    ELSE 0

\* Series.mean(), .min(), .max() of a non-empty sequence of levels; the
\* levels of the model are all present (no NaN), and the mean of integer
\* levels is rounded down to an integer
Mean(s) == SumSeq(s) \div Len(s)
Min(s) == CHOOSE x \in {s[i] : i \in 1..Len(s)} : \A i \in 1..Len(s) : x <= s[i]
Max(s) == CHOOSE x \in {s[i] : i \in 1..Len(s)} : \A i \in 1..Len(s) : x >= s[i]

\* elementwise h - hmodel
Minus(a, b) == [i \in 1..Len(a) |-> a[i] - b[i]]

----------------------------------------------------------------------------
(* External collaborators: UTide and hvec_stat *)

\* The options ut.solve accepts; any other keyword makes it raise.
SolverOpts == {"lat", "trend", "nodal", "conf_int", "method", "constit", "verbose"}

\* ut.solve(t, h, verbose = verbose, **kwargs).  world is what UTide does with
\* this data: world.outcome = "raise" when the fit fails (with message
\* world.msg), otherwise it returns the coefficients world.fit.  The fit has
\* a slope exactly when UTide detrended: the caller's trend option, or
\* UTide's own default world.defaultTrend when the caller gives none.
Detrended(kwargs, world) ==
    IF "trend" \in DOMAIN kwargs THEN kwargs.trend ELSE world.defaultTrend

ut_solve(t, h, kwargs, world) ==
    IF ~(DOMAIN kwargs \subseteq SolverOpts)
    THEN Raise("unknown option", <<[f |-> "solve"]>>)
    ELSE IF world.outcome = "raise"
    THEN Raise(world.msg, <<[f |-> "solve"]>>)
    ELSE Return(
        [world.fit EXCEPT !.keys =
            IF Detrended(kwargs, world) THEN @ \cup {"slope"} ELSE @ \ {"slope"}],
        <<[f |-> "solve"]>>)

\* ut.reconstruct(t, sol).h: one predicted level per timestamp
ut_reconstruct(t, sol) ==
    [i \in 1..Len(t) |->
        sol.mean + (IF t[i] % 2 = 0 THEN SumSeq(sol.A) ELSE 0 - SumSeq(sol.A))]

\* gof.Rsq_adj(ydata, ymodel, k, method)
gof_Rsq_adj(ydata, ymodel, k, method) ==
    100 - k - Max(Minus(ydata, ymodel)) + Min(Minus(ydata, ymodel))

----------------------------------------------------------------------------
(* analysers.run_utide_solve *)

\* k = len(sol.A) * 2 + 1, plus one when kwargs holds a true 'trend'
ParamCount(sol, kwargs) ==
    LET k0 == Len(sol.A) * 2 + 1
    IN IF "trend" \in DOMAIN kwargs
       THEN (IF kwargs.trend THEN k0 + 1 ELSE k0)
       ELSE k0

\* variant: the except branch missing, the solver's exception escapes
SolveFailure_reraise(r) == Raise(r.value.s, r.calls)

\* what the except branch of run_utide_solve hands back: sol = str(e)
SolveFailure(r) == Return(Str(r.value.s), r.calls)

run_utide_solve(t, h, meth_N, kwargs, world) ==
    LET r == ut_solve(t, h, kwargs, world)
    IN IF r.raised
       THEN SolveFailure(r)
       ELSE LET sol == r.value
                hmodel == ut_reconstruct(t, sol)
                k == ParamCount(sol, kwargs)
                s == Minus(h, hmodel)
            IN Return(
                [type |-> "Bunch",
                 name |-> sol.name, A |-> sol.A, g |-> sol.g, mean |-> sol.mean,
                 PE |-> sol.PE, slope |-> sol.slope, rf |-> sol.rf,
                 A_ci |-> sol.A_ci, g_ci |-> sol.g_ci, frq |-> sol.frq,
                 keys |-> sol.keys \cup {"zmean", "count", "Rsq_adj",
                                         "correlation_method", "smean", "smin", "smax"},
                 zmean |-> Mean(h), count |-> Len(h),
                 Rsq_adj |-> gof_Rsq_adj(h, hmodel, k, meth_N),
                 correlation_method |-> meth_N,
                 smean |-> Mean(s), smin |-> Min(s), smax |-> Max(s)],
                r.calls \o <<[f |-> "reconstruct"],
                             [f |-> "Rsq_adj", k |-> k, method |-> meth_N]>>)

----------------------------------------------------------------------------
(* analysers.select_constituents *)

\* variant: the threshold compared with >= instead of >
ExceedsThr_ge(pe, thr) == [i \in 1..Len(pe) |-> CumSum(pe)[i] >= thr]

\* idMx = (coef.PE.cumsum() > thr).argmax()
ExceedsThr(pe, thr) == [i \in 1..Len(pe) |-> CumSum(pe)[i] > thr]

\* variant: the slice taken one further, coef.name[:idMx + 1]
SelectedNames_inclusive(coef, thr) ==
    SubSeq(coef.name, 1, ArgMax(ExceedsThr(coef.PE, thr)) + 1)

SelectedNames(coef, thr) == SubSeq(coef.name, 1, ArgMax(ExceedsThr(coef.PE, thr)))

select_constituents(t, h, latitude, thr, world) ==
    LET r == run_utide_solve(t, h, "Bence",
                 [lat |-> latitude, nodal |-> FALSE, trend |-> FALSE], world)
    IN IF r.raised \/ IsStr(r.value) \/ Len(r.value.PE) = 0
       THEN Return(<<"Error raised">>, r.calls)
       ELSE Return(SelectedNames(r.value, thr), r.calls)

----------------------------------------------------------------------------
(* Inputs *)

\* observation series handed to the single-series functions
SeriesT == <<0, 1, 2>>
SeriesHs == {<<10, 30, 20>>, <<5, 5, 8>>}

Msgs == {"Utide failed", "too few points", "singular matrix"}

\* constituent names c1, c2, ... of a coarse fit, ranked by PE
PEVals == {1, 9, 20, 70}
RankedNames == <<"c1", "c2", "c3", "c4", "c5", "c6">>
ThrVals == {0, 50, 69, 70, 90, 98, 99, 100}

IsNonIncreasing(s) == \A i \in 1..(Len(s) - 1) : s[i] >= s[i + 1]

PESeqs ==
    UNION {{s \in [1..n -> PEVals] : IsNonIncreasing(s) /\ SumSeq(s) <= 100}
           : n \in 0..MaxConstit}

CoarseFit(pe) ==
    [type |-> "Bunch", name |-> SubSeq(RankedNames, 1, Len(pe)), PE |-> pe,
     A |-> pe, g |-> [i \in 1..Len(pe) |-> 0], mean |-> 0, slope |-> 0,
     rf |-> [rms_resid |-> 0], A_ci |-> pe, g_ci |-> pe, frq |-> pe, keys |-> {"A_ci", "g_ci"}]

SelectWorlds ==
    {[outcome |-> "ok", msg |-> "", fit |-> CoarseFit(pe), defaultTrend |-> TRUE]
        : pe \in PESeqs}
    \cup {[outcome |-> "raise", msg |-> m, fit |-> CoarseFit(<<70>>), defaultTrend |-> TRUE]
        : m \in Msgs}

----------------------------------------------------------------------------
(* Calls of select_constituents *)

InitSelect ==
    /\ pc = "call"
    /\ fn = "select_constituents"
    /\ args \in [t : {SeriesT}, h : SeriesHs, latitude : {52}, thr : ThrVals,
                 world : SelectWorlds]
    /\ ret = None
    /\ calls = <<>>

SelectConstituents ==
    /\ pc = "call"
    /\ fn = "select_constituents"
    /\ LET r == select_constituents(args.t, args.h, args.latitude, args.thr, args.world)
       IN /\ ret' = [raised |-> r.raised, value |-> r.value]
          /\ calls' = r.calls
    /\ pc' = "done"
    /\ UNCHANGED <<fn, args>>

NextSelect == SelectConstituents

SpecSelect == InitSelect /\ [][NextSelect]_vars

----------------------------------------------------------------------------
(* analysers.tide_and_setup *)

\* run_utide_solve(t, h, method = meth_N, verbose = False, **kwargs): the
\* keyword arguments the solver receives.
WithMethod(kwargs, meth_N) ==
    [k \in DOMAIN kwargs \cup {"method"} |-> IF k = "method" THEN meth_N ELSE kwargs[k]]

\* the part of tide_and_setup after sol is known (lines 143-157)
SetupFrom(t, h, sol, cs) ==
    IF EqStr(sol, "Utide failed")
    THEN Return(None, cs)
    ELSE IF IsStr(sol)
    THEN Raise("AttributeError", cs \o <<[f |-> "reconstruct"]>>)
    ELSE LET h_astr == ut_reconstruct(t, sol)
             s == Minus(h, h_astr)
         IN Return([type |-> "tuple", h_astr |-> h_astr, s |-> s,
                    s_min |-> Min(s), s_mean |-> Mean(s), s_max |-> Max(s)],
                   cs \o <<[f |-> "reconstruct"]>>)

tide_and_setup(t, h, sol, meth_N, kwargs, world) ==
    IF EqStr(sol, "none")
    THEN IF "method" \in DOMAIN kwargs
         THEN Raise("TypeError", <<>>)
         ELSE LET r == run_utide_solve(t, h, "Bence", WithMethod(kwargs, meth_N), world)
              IN SetupFrom(t, h, r.value, r.calls)
    ELSE SetupFrom(t, h, sol, <<>>)

----------------------------------------------------------------------------
(* Inputs of the single-series calls *)

MaxFit == 2         \* longest constituent list of a segment's fit

FitNames == {"M2", "S2", "K1"}
AmplOf(c) == CASE c = "M2" -> 79 [] c = "S2" -> 2 [] OTHER -> 7
PhaseOf(c) == CASE c = "M2" -> 60 [] c = "S2" -> 120 [] OTHER -> 200
FrqOf(c) == CASE c = "M2" -> 8 [] c = "S2" -> 9 [] OTHER -> 4
MeanVals == {5, 0 - 3}

NameSeqs ==
    UNION {{s \in [1..n -> FitNames] : \A i, j \in 1..n : s[i] = s[j] => i = j}
           : n \in 1..MaxFit}

\* the coefficients UTide returns for a list of constituents; optKeys are
\* the optional members this fit carries besides the slope.  A fit that has
\* the key rms_resid carries the value where parse_utide reads it, in rf.
Fit(names, mean, optKeys) ==
    [type |-> "Bunch", name |-> names,
     A |-> [i \in 1..Len(names) |-> AmplOf(names[i])],
     g |-> [i \in 1..Len(names) |-> PhaseOf(names[i])],
     PE |-> [i \in 1..Len(names) |-> AmplOf(names[i])],
     mean |-> mean, slope |-> 3, rf |-> [rms_resid |-> 11],
     A_ci |-> [i \in 1..Len(names) |-> AmplOf(names[i]) \div 10 + 1],
     g_ci |-> [i \in 1..Len(names) |-> 20 + i],
     frq |-> [i \in 1..Len(names) |-> FrqOf(names[i])],
     keys |-> optKeys]

Worlds(nameSeqs, optKeySets) ==
    {[outcome |-> "ok", msg |-> "", fit |-> Fit(n, m, ks), defaultTrend |-> d]
        : n \in nameSeqs, m \in MeanVals, ks \in optKeySets, d \in BOOLEAN}
    \cup {[outcome |-> "raise", msg |-> m, fit |-> Fit(<<"M2">>, 0, {}), defaultTrend |-> TRUE]
        : m \in Msgs}

SolveWorlds == Worlds(NameSeqs, {{"A_ci", "g_ci"}})

SolveKwargs ==
    {[lat |-> 52], [lat |-> 52, trend |-> TRUE], [lat |-> 52, trend |-> FALSE],
     [lat |-> 52, nodal |-> FALSE, trend |-> FALSE],
     [lat |-> 52, method |-> "ols"]}

\* the sol argument of tide_and_setup: omitted (the default 'none'), or the
\* value run_utide_solve returned for the same series
SolArg(mode, t, h, meth_N, kwargs, world) ==
    IF mode = "omitted" THEN Str("none")
    ELSE run_utide_solve(t, h, meth_N, kwargs, world).value

----------------------------------------------------------------------------
(* Calls of run_utide_solve and tide_and_setup *)

InitSolve ==
    /\ pc = "call"
    /\ fn \in {"run_utide_solve", "tide_and_setup"}
    /\ \E h \in SeriesHs, kw \in SolveKwargs, w \in SolveWorlds,
          mode \in {"omitted", "given"} :
        /\ fn = "run_utide_solve" => mode = "omitted"
        /\ args = [t |-> SeriesT, h |-> h, meth_N |-> "Bence", kwargs |-> kw,
                   world |-> w, mode |-> mode,
                   sol |-> SolArg(mode, SeriesT, h, "Bence", kw, w)]
    /\ ret = None
    /\ calls = <<>>

RunUtideSolve ==
    /\ pc = "call"
    /\ fn = "run_utide_solve"
    /\ LET r == run_utide_solve(args.t, args.h, args.meth_N, args.kwargs, args.world)
       IN /\ ret' = [raised |-> r.raised, value |-> r.value]
          /\ calls' = r.calls
    /\ pc' = "done"
    /\ UNCHANGED <<fn, args>>

TideAndSetup ==
    /\ pc = "call"
    /\ fn = "tide_and_setup"
    /\ LET r == tide_and_setup(args.t, args.h, args.sol, args.meth_N, args.kwargs,
                               args.world)
       IN /\ ret' = [raised |-> r.raised, value |-> r.value]
          /\ calls' = r.calls
    /\ pc' = "done"
    /\ UNCHANGED <<fn, args>>

NextSolve == RunUtideSolve \/ TideAndSetup

SpecSolve == InitSolve /\ [][NextSolve]_vars

----------------------------------------------------------------------------
(* parsers._parse_characteristic_levels *)

DataFrame(columns, data) == [type |-> "DataFrame", columns |-> columns, data |-> data]

\* 'c' in df.columns
HasCol(df, c) == \E i \in 1..Len(df.columns) : df.columns[i] = c

\* df[c] of a one-row table
Col(df, c) == df.data[CHOOSE i \in 1..Len(df.columns) : df.columns[i] = c]

\* df[c] = v: overwrite the column when it exists, append it otherwise
SetCol(df, c, v) ==
    IF HasCol(df, c)
    THEN DataFrame(df.columns,
                   [i \in 1..Len(df.data) |-> IF df.columns[i] = c THEN v ELSE df.data[i]])
    ELSE DataFrame(Append(df.columns, c), Append(df.data, v))

\* variant: the neap levels with their signs exchanged
WithLevels_swapped(df) ==
    LET d1 == SetCol(df, "MHWS", Col(df, "z0") + Col(df, "M2_ampl") + Col(df, "S2_ampl"))
        d2 == SetCol(d1, "MLWS", Col(d1, "z0") - Col(d1, "M2_ampl") - Col(d1, "S2_ampl"))
        d3 == SetCol(d2, "MHWN", Col(d2, "z0") - Col(d2, "M2_ampl") + Col(d2, "S2_ampl"))
    IN SetCol(d3, "MLWN", Col(d3, "z0") + Col(d3, "M2_ampl") - Col(d3, "S2_ampl"))

\* the four assignments of the try block, in order
WithLevels(df) ==
    LET d1 == SetCol(df, "MHWS", Col(df, "z0") + Col(df, "M2_ampl") + Col(df, "S2_ampl"))
        d2 == SetCol(d1, "MLWS", Col(d1, "z0") - Col(d1, "M2_ampl") - Col(d1, "S2_ampl"))
        d3 == SetCol(d2, "MHWN", Col(d2, "z0") + Col(d2, "M2_ampl") - Col(d2, "S2_ampl"))
    IN SetCol(d3, "MLWN", Col(d3, "z0") - Col(d3, "M2_ampl") + Col(d3, "S2_ampl"))

\* except KeyError: return
OnKeyError(df) == None

parse_characteristic_levels(df) ==
    IF HasCol(df, "z0") /\ HasCol(df, "M2_ampl") /\ HasCol(df, "S2_ampl")
    THEN WithLevels(df)
    ELSE OnKeyError(df)

----------------------------------------------------------------------------
(* parsers.parse_utide *)

\* sol.name + '_ampl'
Suffixed(names, sfx) == [i \in 1..Len(names) |-> names[i] \o sfx]

\* one conditional pair of np.hstack calls
Block(cond, names, data) ==
    IF cond THEN [n |-> names, d |-> data] ELSE [n |-> <<>>, d |-> <<>>]

RECURSIVE Stack(_)
Stack(blocks) ==
    IF blocks = <<>> THEN [n |-> <<>>, d |-> <<>>]
    ELSE LET rest == Stack(Tail(blocks))
         IN [n |-> blocks[1].n \o rest.n, d |-> blocks[1].d \o rest.d]

\* variant: the phase confidence intervals emitted whatever include_phase is
Blocks_g_ci_always(sol, include_phase, include_freq) ==
    << Block(TRUE, <<"z0">>, <<sol.mean>>),
       Block(TRUE, <<"zmean">>, <<sol.zmean>>),
       Block(TRUE, <<"count">>, <<sol.count>>),
       Block(TRUE, Suffixed(sol.name, "_ampl"), sol.A),
       Block(TRUE, <<"smean">>, <<sol.smean>>),
       Block(TRUE, <<"smin">>, <<sol.smin>>),
       Block(TRUE, <<"smax">>, <<sol.smax>>),
       Block(include_phase, Suffixed(sol.name, "_phase"), sol.g),
       Block("slope" \in sol.keys, <<"slope">>, <<sol.slope>>),
       Block("rms_resid" \in sol.keys, <<"rms_resid">>, <<sol.rf.rms_resid>>),
       Block("A_ci" \in sol.keys, Suffixed(sol.name, "_A_ci"), sol.A_ci),
       Block("g_ci" \in sol.keys, Suffixed(sol.name, "_g_ci"), sol.g_ci),
       Block("Rsq_adj" \in sol.keys, <<"Rsq_adj">>, <<sol.Rsq_adj>>),
       Block(include_freq, Suffixed(sol.name, "_frq"), sol.frq) >>

\* lines 79-134: the names and the data, block by block
Blocks(sol, include_phase, include_freq) ==
    << Block(TRUE, <<"z0">>, <<sol.mean>>),
       Block(TRUE, <<"zmean">>, <<sol.zmean>>),
       Block(TRUE, <<"count">>, <<sol.count>>),
       Block(TRUE, Suffixed(sol.name, "_ampl"), sol.A),
       Block(TRUE, <<"smean">>, <<sol.smean>>),
       Block(TRUE, <<"smin">>, <<sol.smin>>),
       Block(TRUE, <<"smax">>, <<sol.smax>>),
       Block(include_phase, Suffixed(sol.name, "_phase"), sol.g),
       Block("slope" \in sol.keys, <<"slope">>, <<sol.slope>>),
       Block("rms_resid" \in sol.keys, <<"rms_resid">>, <<sol.rf.rms_resid>>),
       Block("A_ci" \in sol.keys, Suffixed(sol.name, "_A_ci"), sol.A_ci),
       Block("g_ci" \in sol.keys /\ include_phase, Suffixed(sol.name, "_g_ci"), sol.g_ci),
       Block("Rsq_adj" \in sol.keys, <<"Rsq_adj">>, <<sol.Rsq_adj>>),
       Block(include_freq, Suffixed(sol.name, "_frq"), sol.frq) >>

ParseBase(sol, include_phase, include_freq) ==
    LET st == Stack(Blocks(sol, include_phase, include_freq))
    IN DataFrame(st.n, st.d)

parse_utide(sol, include_char_levels, include_phase, include_freq) ==
    LET res == ParseBase(sol, include_phase, include_freq)
    IN IF include_char_levels
       THEN Return(parse_characteristic_levels(res), <<>>)
       ELSE Return(res, <<>>)

----------------------------------------------------------------------------
(* Inputs of the parser calls *)

OptKeySets == SUBSET {"rms_resid", "A_ci", "g_ci"}

\* augmented results as run_utide_solve returns them, and the same results
\* without an adjusted R-squared
AugmentedSols ==
    {run_utide_solve(SeriesT, <<10, 30, 20>>, "Bence", kw, w).value :
        kw \in {[lat |-> 52, trend |-> TRUE], [lat |-> 52, trend |-> FALSE]},
        w \in {x \in Worlds(NameSeqs, OptKeySets) : x.outcome = "ok"}}

ParseSols ==
    AugmentedSols \cup {[s EXCEPT !.keys = @ \ {"Rsq_adj"}] : s \in AugmentedSols}

\* one-row tables handed to _parse_characteristic_levels
LevelFrames ==
    {DataFrame(<<"z0", "M2_ampl", "S2_ampl">>, <<z, m, s>>)
        : z \in {5, 0, 0 - 3}, m \in {79, 10}, s \in {2, 10}}
    \cup {DataFrame(<<"z0", "zmean", "M2_ampl", "K1_ampl", "S2_ampl", "smean">>,
                    <<z, 4, m, 7, s, 1>>)
        : z \in {5, 0, 0 - 3}, m \in {79, 10}, s \in {2, 10}}
    \cup {DataFrame(<<"z0", "M2_ampl", "K1_ampl">>, <<z, m, 7>>)
        : z \in {5, 0, 0 - 3}, m \in {79, 10}}
    \cup {DataFrame(<<"z0", "K1_ampl", "S2_ampl">>, <<z, 7, s>>)
        : z \in {5, 0, 0 - 3}, s \in {2, 10}}
    \cup {DataFrame(<<"M2_ampl", "S2_ampl">>, <<m, s>>) : m \in {79, 10}, s \in {2, 10}}

----------------------------------------------------------------------------
(* Calls of parse_utide and _parse_characteristic_levels *)

InitParse ==
    /\ pc = "call"
    /\ \/ /\ fn = "parse_utide"
          /\ args \in [sol : ParseSols, include_char_levels : BOOLEAN,
                       include_phase : BOOLEAN, include_freq : BOOLEAN]
       \/ /\ fn = "_parse_characteristic_levels"
          /\ args \in [df : LevelFrames]
    /\ ret = None
    /\ calls = <<>>

ParseUtide ==
    /\ pc = "call"
    /\ fn = "parse_utide"
    /\ LET r == parse_utide(args.sol, args.include_char_levels, args.include_phase,
                            args.include_freq)
       IN /\ ret' = [raised |-> r.raised, value |-> r.value]
          /\ calls' = r.calls
    /\ pc' = "done"
    /\ UNCHANGED <<fn, args>>

ParseCharacteristicLevels ==
    /\ pc = "call"
    /\ fn = "_parse_characteristic_levels"
    /\ ret' = [raised |-> FALSE, value |-> parse_characteristic_levels(args.df)]
    /\ calls' = <<>>
    /\ pc' = "done"
    /\ UNCHANGED <<fn, args>>

NextParse == ParseUtide \/ ParseCharacteristicLevels

SpecParse == InitParse /\ [][NextParse]_vars

----------------------------------------------------------------------------
(* pandas groupby, as analyse_long_series uses it *)

\* pd.Grouper(freq = delta_T, key = col_datetime): the time bucket of a timestamp
Bucket(t, delta_T) == t \div delta_T

Locs == <<"A", "B">>
LocRank(loc) == CHOOSE i \in 1..Len(Locs) : Locs[i] = loc

KeyOf(row, delta_T) == <<Bucket(row.t, delta_T), row.loc>>

KeyLess(a, b) == a[1] < b[1] \/ (a[1] = b[1] /\ LocRank(a[2]) < LocRank(b[2]))

RECURSIVE SortKeys(_)
SortKeys(S) ==
    IF S = {} THEN <<>>
    ELSE LET m == CHOOSE a \in S : \A b \in S \ {a} : KeyLess(a, b)
         IN <<m>> \o SortKeys(S \ {m})

\* the group keys, sorted; only non-empty groups exist
GroupKeys(df, delta_T) == SortKeys({KeyOf(df[i], delta_T) : i \in 1..Len(df)})

\* positions (the index labels) of the rows of a group, in table order
RECURSIVE GroupIndex(_, _, _, _)
GroupIndex(df, delta_T, key, i) ==
    IF i > Len(df) THEN <<>>
    ELSE (IF KeyOf(df[i], delta_T) = key THEN <<i>> ELSE <<>>)
         \o GroupIndex(df, delta_T, key, i + 1)

\* group_keys = False (line 274): apply does not put the group key on the result
group_keys == FALSE

RowTag(key) == IF group_keys THEN [keyed |-> TRUE, key |-> key]
               ELSE [keyed |-> FALSE, key |-> <<>>]

----------------------------------------------------------------------------
(* analysers._constit_segment and _timeseries_segment *)

Restrict(kwargs, keys) == [k \in DOMAIN kwargs \ keys |-> kwargs[k]]
Flag(kwargs, key) == IF key \in DOMAIN kwargs THEN kwargs[key] ELSE FALSE

SegT(df, idx) == [i \in 1..Len(idx) |-> df[idx[i]].t]
SegH(df, idx) == [i \in 1..Len(idx) |-> df[idx[i]].h]

\* called with include_phase = include_phase, **kwargs: the named parameters
\* include_char_levels and include_freq are taken out of kwargs
constit_segment(t, h, include_phase, kwargs, world) ==
    LET r == run_utide_solve(t, h, "Bence",
                 Restrict(kwargs, {"include_char_levels", "include_freq"}), world)
    IN IF IsStr(r.value)
       THEN Return(None, r.calls)
       ELSE Return(parse_utide(r.value, Flag(kwargs, "include_char_levels"),
                               include_phase, Flag(kwargs, "include_freq")).value,
                   r.calls)

\* called with **kwargs: every keyword goes on to run_utide_solve
timeseries_segment(t, h, kwargs, world) ==
    LET r == run_utide_solve(t, h, "Bence", kwargs, world)
    IN IF IsStr(r.value)
       THEN Return(None, r.calls)
       ELSE LET ts == tide_and_setup(t, h, r.value, "Bence", kwargs, world)
            IN IF ts.raised
               THEN [ts EXCEPT !.calls = r.calls \o @]
               ELSE Return([type |-> "DataFrame", h_astr |-> ts.value.h_astr,
                            setup |-> ts.value.s],
                           r.calls \o ts.calls)

----------------------------------------------------------------------------
(* analysers.analyse_long_series *)

\* what UTide does with the data of one segment
SegWorld(world, key) ==
    [outcome |-> IF key \in world.fails THEN "raise" ELSE "ok",
     msg |-> "too few points",
     fit |-> Fit(world.names[key[2]], 5, {"A_ci", "g_ci"}),
     defaultTrend |-> world.defaultTrend]

ConstitOf(df, delta_T, include_phase, kwargs, world, key) ==
    LET idx == GroupIndex(df, delta_T, key, 1)
    IN constit_segment(SegT(df, idx), SegH(df, idx), include_phase, kwargs,
                       SegWorld(world, key))

TimeseriesOf(df, delta_T, kwargs, world, key) ==
    LET idx == GroupIndex(df, delta_T, key, 1)
    IN timeseries_segment(SegT(df, idx), SegH(df, idx), kwargs, SegWorld(world, key))

\* gr.progress_apply: the function applied to every group, in group order
ConstitResults(df, delta_T, include_phase, kwargs, world, keys) ==
    [i \in 1..Len(keys) |-> ConstitOf(df, delta_T, include_phase, kwargs, world, keys[i])]

TimeseriesResults(df, delta_T, kwargs, world, keys) ==
    [i \in 1..Len(keys) |-> TimeseriesOf(df, delta_T, kwargs, world, keys[i])]

\* the external calls of a pass, group after group
RECURSIVE CallsOf(_)
CallsOf(results) ==
    IF results = <<>> THEN <<>> ELSE results[1].calls \o CallsOf(Tail(results))

\* the frames of the groups that returned one, concatenated in group order;
\* then reset_index
RECURSIVE ConstitTable(_, _)
ConstitTable(results, keys) ==
    IF keys = <<>> THEN <<>>
    ELSE (IF results[1].value = None THEN <<>>
          ELSE <<[tag |-> RowTag(keys[1]), rec |-> results[1].value]>>)
         \o ConstitTable(Tail(results), Tail(keys))

\* the rows of one group with h_astr and setup added, labelled by position
AugmentedRows(df, idx, frame) ==
    [i \in 1..Len(idx) |->
        [label |-> idx[i], t |-> df[idx[i]].t, loc |-> df[idx[i]].loc,
         h |-> df[idx[i]].h, h_astr |-> frame.h_astr[i], setup |-> frame.setup[i]]]

RECURSIVE ConcatSeries(_, _, _, _)
ConcatSeries(df, delta_T, results, keys) ==
    IF keys = <<>> THEN <<>>
    ELSE (IF results[1].value = None THEN <<>>
          ELSE AugmentedRows(df, GroupIndex(df, delta_T, keys[1], 1), results[1].value))
         \o ConcatSeries(df, delta_T, Tail(results), Tail(keys))

\* result.reindex(ax): the rows in the order of the labels of the input table
Reindexed(rows, n) ==
    [i \in 1..n |-> rows[CHOOSE j \in 1..Len(rows) : rows[j].label = i]]

\* res.reset_index(drop = True) drops the labels
Unlabelled(rows) ==
    [i \in 1..Len(rows) |->
        [t |-> rows[i].t, loc |-> rows[i].loc, h |-> rows[i].h,
         h_astr |-> rows[i].h_astr, setup |-> rows[i].setup]]

\* gr.progress_apply(_timeseries_segment): when every group returns its frame
\* the result is indexed like the input and pandas puts it back in the order
\* of the input; when a group returns None the frames are concatenated in
\* group order.
SeriesTable(df, delta_T, results, keys) ==
    LET rows == ConcatSeries(df, delta_T, results, keys)
    IN IF Len(rows) = Len(df)
       THEN Unlabelled(Reindexed(rows, Len(df)))
       ELSE Unlabelled(rows)

analyse_long_series(df, delta_T, create_time_series, include_phase, kwargs, world) ==
    LET keys == GroupKeys(df, delta_T)
        cres == ConstitResults(df, delta_T, include_phase, kwargs, world, keys)
        constit == ConstitTable(cres, keys)
    IN IF create_time_series
       THEN LET tres == TimeseriesResults(df, delta_T, kwargs, world, keys)
            IN Return([type |-> "tuple",
                       res |-> SeriesTable(df, delta_T, tres, keys),
                       constit |-> constit],
                      CallsOf(cres) \o CallsOf(tres))
       ELSE Return([type |-> "tuple", res |-> <<>>, constit |-> constit], CallsOf(cres))

----------------------------------------------------------------------------
(* Inputs of analyse_long_series *)

Times == 0..2
Level(t, loc) == 10 * (t + 1) + LocRank(loc)

TableRows == {[t |-> t, loc |-> Locs[l], h |-> Level(t, Locs[l])]
                 : t \in Times, l \in 1..Len(Locs)}

Tables ==
    UNION {{s \in [1..n -> TableRows] : \A i, j \in 1..n : s[i] = s[j] => i = j}
           : n \in 1..MaxRows}

SeriesKwargs ==
    {[lat |-> 52], [lat |-> 52, trend |-> FALSE],
     [lat |-> 52, include_freq |-> TRUE],
     [lat |-> 52, include_char_levels |-> TRUE],
     [lat |-> 52, include_char_levels |-> FALSE]}

LocNames ==
    {[l \in {"A", "B"} |-> IF l = "A" THEN <<"M2", "S2">> ELSE b]
        : b \in {<<"M2", "K1">>, <<"S2", "M2">>}}

----------------------------------------------------------------------------
(* Calls of analyse_long_series *)

InitSeries ==
    /\ pc = "call"
    /\ fn = "analyse_long_series"
    /\ \E df \in Tables, kw \in SeriesKwargs, names \in LocNames,
          cts \in BOOLEAN, ph \in BOOLEAN :
        \E fails \in SUBSET {KeyOf(df[i], 2) : i \in 1..Len(df)} :
            args = [df |-> df, delta_T |-> 2, create_time_series |-> cts,
                    include_phase |-> ph, kwargs |-> kw,
                    world |-> [fails |-> fails, names |-> names, defaultTrend |-> TRUE]]
    /\ ret = None
    /\ calls = <<>>

AnalyseLongSeries ==
    /\ pc = "call"
    /\ fn = "analyse_long_series"
    /\ LET r == analyse_long_series(args.df, args.delta_T, args.create_time_series,
                                    args.include_phase, args.kwargs, args.world)
       IN /\ ret' = [raised |-> r.raised, value |-> r.value]
          /\ calls' = r.calls
    /\ pc' = "done"
    /\ UNCHANGED <<fn, args>>

NextSeries == AnalyseLongSeries

SpecSeries == InitSeries /\ [][NextSeries]_vars

----------------------------------------------------------------------------
(* Properties of select_constituents *)

\* a call that has returned after a successful coarse solve with PE values
SelectDone ==
    /\ pc = "done"
    /\ fn = "select_constituents"
    /\ args.world.outcome = "ok"
    /\ Len(args.world.fit.PE) >= 1

CumPE(i) == SumSeq(SubSeq(args.world.fit.PE, 1, i))

\* i is the first position (counted from 1) whose cumulative PE exceeds thr
FirstOver(i) ==
    /\ i \in 1..Len(args.world.fit.PE)
    /\ CumPE(i) > args.thr
    /\ \A j \in 1..(i - 1) : CumPE(j) <= args.thr

SomeOver == \E i \in 1..Len(args.world.fit.PE) : FirstOver(i)

C2_Case ==
    /\ SelectDone
    /\ args.world.fit.name = <<"c1", "c2", "c3", "c4">>
    /\ args.world.fit.PE = <<70, 20, 9, 1>>
    /\ args.thr = 99

\* C2 as stated: with PE [70, 20, 9, 1] and thr = 99 the result is ['c1', 'c2'].
C2_AsStated == C2_Case => ret.value = <<"c1", "c2">>

\* C2 (amended): with PE [70, 20, 9, 1] and thr = 99 the cumulative PE
\* 70, 90, 99, 100 first exceeds 99 at the fourth constituent, and the result
\* is ['c1', 'c2', 'c3'].
C2_ThreeSelected == C2_Case => ~ret.raised /\ ret.value = <<"c1", "c2", "c3">>

C2_Witness == C2_Case /\ Len(ret.value) = 3

----------------------------------------------------------------------------
(* Properties of run_utide_solve and tide_and_setup *)

SolveDone == pc = "done" /\ fn = "run_utide_solve"

SolverRaised == ut_solve(args.t, args.h, args.kwargs, args.world).raised

C10_AsStated ==
    (SolveDone /\ ~SolverRaised) =>
        \E i \in 1..Len(calls) :
            /\ calls[i].f = "Rsq_adj"
            /\ calls[i].k = 2 * Len(ret.value.name) + 1
                            + (IF Detrended(args.kwargs, args.world) THEN 1 ELSE 0)

SetupDone == pc = "done" /\ fn = "tide_and_setup"

\* no valid coefficient set: sol omitted and the solve it triggers fails, or
\* sol is the string a failed run_utide_solve returned
NoValidSol ==
    \/ /\ args.mode = "omitted"
       /\ "method" \notin DOMAIN args.kwargs
       /\ ut_solve(args.t, args.h, WithMethod(args.kwargs, args.meth_N), args.world).raised
    \/ /\ args.mode = "given"
       /\ IsStr(args.sol)

\* C5: without a valid coefficient set tide_and_setup returns None, does
\* not call reconstruct and does not raise, whatever the solver's message.
C5_AsStated ==
    (SetupDone /\ NoValidSol) =>
        /\ ~ret.raised
        /\ ret.value = None
        /\ \A i \in 1..Len(calls) : calls[i].f # "reconstruct"

----------------------------------------------------------------------------
(* Properties of parse_utide and _parse_characteristic_levels *)

ParseDone == pc = "done" /\ fn = "parse_utide"

HasName(sol, c) == \E i \in 1..Len(sol.name) : sol.name[i] = c

\* C3: when the fit lacks M2 or S2, parse_utide with include_char_levels
\* raises nothing and returns the record it returns without them.
C3_AsStated ==
    (ParseDone /\ args.include_char_levels
        /\ (~HasName(args.sol, "M2") \/ ~HasName(args.sol, "S2"))) =>
        /\ ~ret.raised
        /\ ret.value = parse_utide(args.sol, FALSE, args.include_phase,
                                   args.include_freq).value

Opt(cond, names) == IF cond THEN names ELSE <<>>

FieldOrder(sol, include_phase, include_freq) ==
    <<"z0", "zmean", "count">>
    \o Suffixed(sol.name, "_ampl")
    \o <<"smean", "smin", "smax">>
    \o Opt(include_phase, Suffixed(sol.name, "_phase"))
    \o Opt("slope" \in sol.keys, <<"slope">>)
    \o Opt("rms_resid" \in sol.keys, <<"rms_resid">>)
    \o Opt("A_ci" \in sol.keys, Suffixed(sol.name, "_A_ci"))
    \o Opt("g_ci" \in sol.keys /\ include_phase, Suffixed(sol.name, "_g_ci"))
    \o Opt("Rsq_adj" \in sol.keys, <<"Rsq_adj">>)
    \o Opt(include_freq, Suffixed(sol.name, "_frq"))

LevelsDone == pc = "done" /\ fn = "_parse_characteristic_levels"

\* C9: for a record with z0, M2_ampl and S2_ampl the result keeps every
\* field and adds exactly MHWS = z0 + M2 + S2, MLWS = z0 - M2 - S2,
\* MHWN = z0 + M2 - S2 and MLWN = z0 - M2 + S2; z0 = 5, M2 = 79, S2 = 2
\* gives MLWS = -76, MLWN = -72, MHWN = 82, MHWS = 86.
C9_Levels ==
    (LevelsDone /\ HasCol(args.df, "z0") /\ HasCol(args.df, "M2_ampl")
        /\ HasCol(args.df, "S2_ampl")) =>
        LET n == Len(args.df.columns)
            z == Col(args.df, "z0")
            m == Col(args.df, "M2_ampl")
            s == Col(args.df, "S2_ampl")
        IN /\ ret.value # None
           /\ Len(ret.value.columns) = n + 4
           /\ Len(ret.value.data) = n + 4
           /\ SubSeq(ret.value.columns, 1, n) = args.df.columns
           /\ SubSeq(ret.value.data, 1, n) = args.df.data
           /\ {ret.value.columns[i] : i \in (n + 1)..(n + 4)}
                = {"MHWS", "MLWS", "MHWN", "MLWN"}
           /\ Col(ret.value, "MHWS") = z + m + s
           /\ Col(ret.value, "MLWS") = z - m - s
           /\ Col(ret.value, "MHWN") = z + m - s
           /\ Col(ret.value, "MLWN") = z - m + s
           /\ (z = 5 /\ m = 79 /\ s = 2) =>
                /\ Col(ret.value, "MLWS") = 0 - 76
                /\ Col(ret.value, "MLWN") = 0 - 72
                /\ Col(ret.value, "MHWN") = 82
                /\ Col(ret.value, "MHWS") = 86

C9_Witness ==
    /\ LevelsDone
    /\ args.df = DataFrame(<<"z0", "M2_ampl", "S2_ampl">>, <<5, 79, 2>>)
    /\ ret.value.columns = <<"z0", "M2_ampl", "S2_ampl", "MHWS", "MLWS", "MHWN", "MLWN">>

----------------------------------------------------------------------------
(* Properties of analyse_long_series *)

SeriesDone == pc = "done" /\ fn = "analyse_long_series"

SolverKwargs == Restrict(args.kwargs, {"include_char_levels", "include_freq"})

SegIdx(key) == GroupIndex(args.df, args.delta_T, key, 1)

\* the solve of the segment, run with the solver options of the call
SegSolve(key) ==
    run_utide_solve(SegT(args.df, SegIdx(key)), SegH(args.df, SegIdx(key)), "Bence",
                    SolverKwargs, SegWorld(args.world, key))

Solved(key) == ~IsStr(SegSolve(key).value)

Segments == {KeyOf(args.df[i], args.delta_T) : i \in 1..Len(args.df)}

\* C4: analyse_long_series raises nothing; the constituent table has one
\* row per segment whose solve succeeded, tagged with the segment's key,
\* and no row for a failed segment, whatever the flattener flags.
C4_AsStated ==
    SeriesDone =>
        /\ ~ret.raised
        /\ Len(ret.value.constit) = Cardinality({k \in Segments : Solved(k)})
        /\ \A k \in Segments :
              Cardinality({i \in 1..Len(ret.value.constit) :
                              /\ ret.value.constit[i].tag.keyed
                              /\ ret.value.constit[i].tag.key = k})
                = (IF Solved(k) THEN 1 ELSE 0)

RECURSIVE SolvedRows(_)
SolvedRows(keys) ==
    IF keys = <<>> THEN <<>>
    ELSE LET idx == SegIdx(keys[1])
             hm == ut_reconstruct(SegT(args.df, idx), SegSolve(keys[1]).value)
         IN (IF Solved(keys[1])
             THEN [i \in 1..Len(idx) |->
                     [t |-> args.df[idx[i]].t, loc |-> args.df[idx[i]].loc,
                      h |-> args.df[idx[i]].h, h_astr |-> hm[i],
                      setup |-> args.df[idx[i]].h - hm[i]]]
             ELSE <<>>)
            \o SolvedRows(Tail(keys))

\* C7: with create_time_series the augmented series holds the rows of
\* exactly the segments whose solve succeeded, each with h_astr and
\* setup = h - h_astr, in their order within the segment, the segments in
\* partition order, for any solver options and flattener flags.
C7_AsStated ==
    (SeriesDone /\ args.create_time_series) =>
        /\ ~ret.raised
        /\ ret.value.res = SolvedRows(GroupKeys(args.df, args.delta_T))

====
